---- MODULE Spec2Model ----
(***************************************************************************)
(* Model of the resilience core of mixamo-blend-pipeline:                  *)
(*   src/src/utils/retry.py      calculate_backoff_delay,                  *)
(*                               retry_with_backoff, CircuitBreaker        *)
(*   src/src/uploader/uploader.py  gcs_circuit_breaker, _perform_gcs_upload*)
(*                                                                         *)
(* A thread executes one statement of the code per step.  A statement      *)
(* "x += 1" on a shared attribute is a read step followed by a write step, *)
(* because the code takes no lock around it.  With a single caller the     *)
(* steps of one call simply follow one another.                            *)
(*                                                                         *)
(* Time is an integer clock `now` (datetime.now() reads it).               *)
(***************************************************************************)
EXTENDS Integers, Sequences, FiniteSets, TLC

VARIABLES
    cfg,                \* constructor / decorator arguments (never change)
    now,                \* the wall clock
    state,              \* CircuitBreaker.state
    failure_count,      \* CircuitBreaker.failure_count
    half_open_attempts, \* CircuitBreaker.half_open_attempts
    last_failure_time,  \* CircuitBreaker.last_failure_time
    opened_at,          \* CircuitBreaker.opened_at
    stats,              \* CircuitBreaker.stats (CircuitBreakerStats)
    pc,                 \* per thread: the statement it is about to execute
    loc,                \* per thread: local variables of the running frames
    log                 \* history: the completed top-level operations, in order

vars == <<cfg, now, state, failure_count, half_open_attempts,
          last_failure_time, opened_at, stats, pc, loc, log>>

breaker == <<state, failure_count, half_open_attempts,
             last_failure_time, opened_at, stats>>

----------------------------------------------------------------------------
(* Bounds of the model *)

MaxThreshold == 3       \* failure_threshold ranges over 1..MaxThreshold
MaxTimeout == 2         \* timeout ranges over 0..MaxTimeout
MaxTime == 2            \* the clock ticks while now < MaxTime
MaxCalls == 4           \* completed top-level operations kept in log

----------------------------------------------------------------------------
(* Values *)

\* Optional[datetime] = None
None == -1

Threads == {"t1", "t2"}

CLOSED == "closed"
OPEN == "open"
HALF_OPEN == "half_open"

CircuitState == {CLOSED, OPEN, HALF_OPEN}

\* The classes an exception of each type is an instance of.
Mro(type) ==
    CASE type = "ConnectionError" ->
            {"ConnectionError", "OSError", "Exception", "BaseException"}
      [] type = "ValueError" -> {"ValueError", "Exception", "BaseException"}
      [] type = "CircuitBreakerError" ->
            {"CircuitBreakerError", "Exception", "BaseException"}
      [] type = "RuntimeError" -> {"RuntimeError", "Exception", "BaseException"}
      [] type = "TypeError" -> {"TypeError", "Exception", "BaseException"}
      [] type = "KeyboardInterrupt" -> {"KeyboardInterrupt", "BaseException"}
      [] OTHER -> {}

IsInstance(type, cls) == cls \in Mro(type)

CircuitBreakerStats ==
    [total_requests |-> 0, successful_requests |-> 0, failed_requests |-> 0,
     last_failure_time |-> None, state_changes |-> 0]

\* "no exception": the value of last_exception before any failure
NoExc == [type |-> "None", id |-> 0]

\* Locals of a thread that runs nothing.
\*   kind, caller      the top-level operation, and who called breaker.call
\*   tmp               the value read by the read half of a "+="
\*   gate, ran, exc    CircuitBreaker.call: the state the gate saw, whether
\*                     func was invoked, the exception func raised
\*   at, oa            _should_attempt_reset: the values of datetime.now()
\*                     and self.opened_at it computed elapsed from
\*   t_exc             the time at which func raised
\*   invoked           how often the wrapped operation was invoked
\*   attempt, e, last_exception, delay, res
\*                     retry_with_backoff.wrapper: its locals, and the
\*                     outcome of the func invocation that just ended
\*   events            history of the wrapper call: func invocations,
\*                     on_retry calls and sleeps, in order
\*   file              the local file and destination upload_file was given
\*   result            how the top-level operation ended
NoLocals ==
    [kind |-> "none", caller |-> "top", tmp |-> 0, gate |-> "none",
     at |-> None, oa |-> None, ran |-> FALSE, invoked |-> 0,
     exc |-> "None", t_exc |-> None,
     attempt |-> 0, e |-> NoExc, last_exception |-> NoExc, delay |-> 0,
     res |-> "None", events |-> <<>>, file |-> "none",
     result |-> [out |-> "None", eid |-> 0]]

----------------------------------------------------------------------------
(* CircuitBreaker.__init__ *)

BreakerInit ==
    /\ state = CLOSED
    /\ failure_count = 0
    /\ half_open_attempts = 0
    /\ last_failure_time = None
    /\ opened_at = None
    /\ stats = CircuitBreakerStats

----------------------------------------------------------------------------
(* Frames *)

Goto(t, label) == pc' = [pc EXCEPT ![t] = label]

\* The top-level operation of thread t, whose locals are l, ends: out is
\* "ok" or the type of the exception that reaches the caller, eid the
\* identity of the returned value or of that exception object (the number
\* of the func invocation that produced it).  The frame is kept until
\* Return.
Done(t, l, out, eid) ==
    /\ pc' = [pc EXCEPT ![t] = "done"]
    /\ loc' = [loc EXCEPT ![t] = [l EXCEPT !.result = [out |-> out, eid |-> eid]]]
    /\ UNCHANGED log

\* The history entry of a completed top-level operation with locals l.
Entry(t, l) ==
    [op |-> l.kind, tid |-> t, out |-> l.result.out, eid |-> l.result.eid,
     gate |-> l.gate, invoked |-> l.invoked, opened |-> opened_at,
     file |-> l.file]

\* Control is back in the caller of the top-level operation.
Return(t) ==
    /\ pc[t] = "done"
    /\ pc' = [pc EXCEPT ![t] = "idle"]
    /\ loc' = [loc EXCEPT ![t] = NoLocals]
    /\ log' = Append(log, Entry(t, loc[t]))
    /\ UNCHANGED <<cfg, now, breaker>>

\* breaker.call (or breaker.reset) of thread t ends with `out`: control is
\* back in the caller, which is retry_with_backoff.wrapper at line 181 when
\* the breaker's wrapper is the decorated func.
Finish(t, l, out) ==
    IF l.caller = "retry"
       THEN /\ pc' = [pc EXCEPT ![t] = "retry_ret"]
            /\ loc' = [loc EXCEPT ![t] = [l EXCEPT !.res = out]]
            /\ UNCHANGED log
       ELSE Done(t, l, out, 0)

----------------------------------------------------------------------------
(* CircuitBreaker.call *)

\* A caller invokes breaker.call(func).
CallEnter(t) ==
    /\ pc[t] = "idle"
    /\ Len(log) < MaxCalls
    /\ Goto(t, "call_374r")
    /\ loc' = [loc EXCEPT ![t] = [NoLocals EXCEPT !.kind = "call"]]
    /\ UNCHANGED <<cfg, now, breaker, log>>

\* self.stats.total_requests += 1   (read)
Call374r(t) ==
    /\ pc[t] = "call_374r"
    /\ loc' = [loc EXCEPT ![t].tmp = stats.total_requests]
    /\ Goto(t, "call_374w")
    /\ UNCHANGED <<cfg, now, breaker, log>>

\* self.stats.total_requests += 1   (write)
Call374w(t) ==
    /\ pc[t] = "call_374w"
    /\ stats' = [stats EXCEPT !.total_requests = loc[t].tmp + 1]
    /\ Goto(t, "call_377")
    /\ UNCHANGED <<cfg, now, state, failure_count, half_open_attempts,
                   last_failure_time, opened_at, loc, log>>

\* if self.state == CircuitState.OPEN:
Call377(t) ==
    /\ pc[t] = "call_377"
    /\ IF state = OPEN
          THEN /\ Goto(t, "reset_407")
          ELSE /\ Goto(t, "call_388")
    /\ loc' = [loc EXCEPT ![t].gate = state]
    /\ UNCHANGED <<cfg, now, breaker, log>>

\* _should_attempt_reset: if self.opened_at is None: return True
Reset407(t) ==
    /\ pc[t] = "reset_407"
    /\ IF opened_at = None
          THEN Goto(t, "half_415")
          ELSE Goto(t, "reset_410")
    /\ UNCHANGED <<cfg, now, breaker, loc, log>>

\* Mutant: the cool-down must be exceeded, not merely reached.
ElapsedExceeded(elapsed, timeout) == elapsed > timeout

\* Mutant: the cool-down never ends.
ElapsedNever(elapsed, timeout) == FALSE

\* Mutant: an OPEN breaker lets every call through.
ElapsedAlways(elapsed, timeout) == TRUE

\* return elapsed >= self.timeout
ElapsedReached(elapsed, timeout) == elapsed >= timeout

\* Mutant: a rejection restarts the cool-down.
Reset410Extends(t) ==
    /\ pc[t] = "reset_410"
    /\ opened_at # None
    /\ LET l == [loc[t] EXCEPT !.at = now, !.oa = opened_at]
       IN  IF ElapsedReached(l.at - l.oa, cfg.timeout)
              THEN /\ Goto(t, "half_415")
                   /\ loc' = [loc EXCEPT ![t] = l]
                   /\ UNCHANGED <<log, opened_at>>
              ELSE /\ Finish(t, l, "CircuitBreakerError")
                   /\ opened_at' = now
    /\ UNCHANGED <<cfg, now, state, failure_count, half_open_attempts,
                   last_failure_time, stats>>

\* elapsed = (datetime.now() - self.opened_at).total_seconds()
\* return elapsed >= self.timeout; on False, call raises CircuitBreakerError.
\* (datetime - None is a TypeError.)
Reset410(t) ==
    /\ pc[t] = "reset_410"
    /\ IF opened_at = None
          THEN /\ Finish(t, loc[t], "TypeError")
          ELSE LET l == [loc[t] EXCEPT !.at = now, !.oa = opened_at]
               IN  IF ElapsedReached(l.at - l.oa, cfg.timeout)
                      THEN /\ Goto(t, "half_415")
                           /\ loc' = [loc EXCEPT ![t] = l]
                           /\ UNCHANGED log
                      ELSE Finish(t, l, "CircuitBreakerError")
    /\ UNCHANGED <<cfg, now, breaker>>

\* Mutant: once the cool-down is over the breaker closes without a trial.
Half415Closes(t) ==
    /\ pc[t] = "half_415"
    /\ state' = CLOSED
    /\ Goto(t, "half_416")
    /\ UNCHANGED <<cfg, now, failure_count, half_open_attempts,
                   last_failure_time, opened_at, stats, loc, log>>

\* _transition_to_half_open: self.state = CircuitState.HALF_OPEN
Half415(t) ==
    /\ pc[t] = "half_415"
    /\ state' = HALF_OPEN
    /\ Goto(t, "half_416")
    /\ UNCHANGED <<cfg, now, failure_count, half_open_attempts,
                   last_failure_time, opened_at, stats, loc, log>>

\* self.half_open_attempts = 0
Half416(t) ==
    /\ pc[t] = "half_416"
    /\ half_open_attempts' = 0
    /\ Goto(t, "half_417r")
    /\ UNCHANGED <<cfg, now, state, failure_count,
                   last_failure_time, opened_at, stats, loc, log>>

\* self.stats.state_changes += 1   (read)
Half417r(t) ==
    /\ pc[t] = "half_417r"
    /\ loc' = [loc EXCEPT ![t].tmp = stats.state_changes]
    /\ Goto(t, "half_417w")
    /\ UNCHANGED <<cfg, now, breaker, log>>

\* self.stats.state_changes += 1   (write)
Half417w(t) ==
    /\ pc[t] = "half_417w"
    /\ stats' = [stats EXCEPT !.state_changes = loc[t].tmp + 1]
    /\ Goto(t, "call_388")
    /\ UNCHANGED <<cfg, now, state, failure_count, half_open_attempts,
                   last_failure_time, opened_at, loc, log>>

\* result = func(*args, **kwargs): the wrapped operation starts
Call388(t) ==
    /\ pc[t] = "call_388"
    /\ loc' = [loc EXCEPT ![t].invoked = @ + 1, ![t].ran = TRUE]
    /\ Goto(t, "in_op")
    /\ UNCHANGED <<cfg, now, breaker, log>>

\* the wrapped operation returns normally
OpReturn(t) ==
    /\ pc[t] = "in_op"
    /\ Goto(t, "succ_427r")
    /\ UNCHANGED <<cfg, now, breaker, loc, log>>

\* the wrapped operation raises e;  except self.expected_exception as e:
\* anything else propagates out of call untouched
OpRaise(t) ==
    /\ pc[t] = "in_op"
    /\ \E e \in cfg.op_raises :
          IF IsInstance(e, cfg.expected_exception)
             THEN /\ Goto(t, "fail_449r")
                  /\ loc' = [loc EXCEPT ![t].exc = e, ![t].t_exc = now]
                  /\ UNCHANGED log
             ELSE Finish(t, [loc[t] EXCEPT !.exc = e, !.t_exc = now], e)
    /\ UNCHANGED <<cfg, now, breaker>>

----------------------------------------------------------------------------
(* CircuitBreaker._on_success *)

\* self.stats.successful_requests += 1   (read)
Succ427r(t) ==
    /\ pc[t] = "succ_427r"
    /\ loc' = [loc EXCEPT ![t].tmp = stats.successful_requests]
    /\ Goto(t, "succ_427w")
    /\ UNCHANGED <<cfg, now, breaker, log>>

\* self.stats.successful_requests += 1   (write)
Succ427w(t) ==
    /\ pc[t] = "succ_427w"
    /\ stats' = [stats EXCEPT !.successful_requests = loc[t].tmp + 1]
    /\ Goto(t, "succ_429")
    /\ UNCHANGED <<cfg, now, state, failure_count, half_open_attempts,
                   last_failure_time, opened_at, loc, log>>

\* if self.state == CircuitState.HALF_OPEN: self._close_circuit()
Succ429(t) ==
    /\ pc[t] = "succ_429"
    /\ Goto(t, IF state = HALF_OPEN THEN "close_484" ELSE "succ_434")
    /\ UNCHANGED <<cfg, now, breaker, loc, log>>

\* elif self.state == CircuitState.CLOSED:  (otherwise return result)
Succ434(t) ==
    /\ pc[t] = "succ_434"
    /\ IF state = CLOSED
          THEN /\ Goto(t, "succ_436")
               /\ UNCHANGED <<loc, log>>
          ELSE Finish(t, loc[t], "ok")
    /\ UNCHANGED <<cfg, now, breaker>>

\* if self.failure_count > 0:  (otherwise return result)
Succ436(t) ==
    /\ pc[t] = "succ_436"
    /\ IF failure_count > 0
          THEN /\ Goto(t, "succ_440")
               /\ UNCHANGED <<loc, log>>
          ELSE Finish(t, loc[t], "ok")
    /\ UNCHANGED <<cfg, now, breaker>>

\* Mutant: a success while CLOSED keeps the failure count.
Succ440Keeps(t) ==
    /\ pc[t] = "succ_440"
    /\ Finish(t, loc[t], "ok")
    /\ UNCHANGED <<cfg, now, breaker>>

\* self.failure_count = 0; return result
Succ440(t) ==
    /\ pc[t] = "succ_440"
    /\ failure_count' = 0
    /\ Finish(t, loc[t], "ok")
    /\ UNCHANGED <<cfg, now, state, half_open_attempts,
                   last_failure_time, opened_at, stats>>

----------------------------------------------------------------------------
(* CircuitBreaker._close_circuit and CircuitBreaker.reset *)

\* A caller invokes breaker.reset(), which calls self._close_circuit().
ResetEnter(t) ==
    /\ pc[t] = "idle"
    /\ Len(log) < MaxCalls
    /\ Goto(t, "close_484")
    /\ loc' = [loc EXCEPT ![t] = [NoLocals EXCEPT !.kind = "reset"]]
    /\ UNCHANGED <<cfg, now, breaker, log>>

\* self.state = CircuitState.CLOSED
Close484(t) ==
    /\ pc[t] = "close_484"
    /\ state' = CLOSED
    /\ Goto(t, "close_485")
    /\ UNCHANGED <<cfg, now, failure_count, half_open_attempts,
                   last_failure_time, opened_at, stats, loc, log>>

\* Mutant: closing the circuit keeps the failure count.
Close485Keeps(t) ==
    /\ pc[t] = "close_485"
    /\ Goto(t, "close_486")
    /\ UNCHANGED <<cfg, now, breaker, loc, log>>

\* self.failure_count = 0
Close485(t) ==
    /\ pc[t] = "close_485"
    /\ failure_count' = 0
    /\ Goto(t, "close_486")
    /\ UNCHANGED <<cfg, now, state, half_open_attempts,
                   last_failure_time, opened_at, stats, loc, log>>

\* Mutant: closing the circuit keeps opened_at.
Close486Keeps(t) ==
    /\ pc[t] = "close_486"
    /\ Goto(t, "close_487")
    /\ UNCHANGED <<cfg, now, breaker, loc, log>>

\* self.opened_at = None
Close486(t) ==
    /\ pc[t] = "close_486"
    /\ opened_at' = None
    /\ Goto(t, "close_487")
    /\ UNCHANGED <<cfg, now, state, failure_count, half_open_attempts,
                   last_failure_time, stats, loc, log>>

\* self.half_open_attempts = 0
Close487(t) ==
    /\ pc[t] = "close_487"
    /\ half_open_attempts' = 0
    /\ Goto(t, "close_488r")
    /\ UNCHANGED <<cfg, now, state, failure_count,
                   last_failure_time, opened_at, stats, loc, log>>

\* self.stats.state_changes += 1   (read)
Close488r(t) ==
    /\ pc[t] = "close_488r"
    /\ loc' = [loc EXCEPT ![t].tmp = stats.state_changes]
    /\ Goto(t, "close_488w")
    /\ UNCHANGED <<cfg, now, breaker, log>>

\* self.stats.state_changes += 1   (write); _close_circuit returns, and with
\* it _on_success and call (return result), or reset.
Close488w(t) ==
    /\ pc[t] = "close_488w"
    /\ stats' = [stats EXCEPT !.state_changes = loc[t].tmp + 1]
    /\ Finish(t, loc[t], "ok")
    /\ UNCHANGED <<cfg, now, state, failure_count, half_open_attempts,
                   last_failure_time, opened_at>>

----------------------------------------------------------------------------
(* CircuitBreaker._on_failure *)

\* self.stats.failed_requests += 1   (read)
Fail449r(t) ==
    /\ pc[t] = "fail_449r"
    /\ loc' = [loc EXCEPT ![t].tmp = stats.failed_requests]
    /\ Goto(t, "fail_449w")
    /\ UNCHANGED <<cfg, now, breaker, log>>

\* Mutant: failures are not counted in the statistics.
Fail449wSkips(t) ==
    /\ pc[t] = "fail_449w"
    /\ Goto(t, "fail_450r")
    /\ UNCHANGED <<cfg, now, breaker, loc, log>>

\* self.stats.failed_requests += 1   (write)
Fail449w(t) ==
    /\ pc[t] = "fail_449w"
    /\ stats' = [stats EXCEPT !.failed_requests = loc[t].tmp + 1]
    /\ Goto(t, "fail_450r")
    /\ UNCHANGED <<cfg, now, state, failure_count, half_open_attempts,
                   last_failure_time, opened_at, loc, log>>

\* self.failure_count += 1   (read)
Fail450r(t) ==
    /\ pc[t] = "fail_450r"
    /\ loc' = [loc EXCEPT ![t].tmp = failure_count]
    /\ Goto(t, "fail_450w")
    /\ UNCHANGED <<cfg, now, breaker, log>>

\* self.failure_count += 1   (write)
Fail450w(t) ==
    /\ pc[t] = "fail_450w"
    /\ failure_count' = loc[t].tmp + 1
    /\ Goto(t, "fail_451")
    /\ UNCHANGED <<cfg, now, state, half_open_attempts,
                   last_failure_time, opened_at, stats, loc, log>>

\* self.last_failure_time = datetime.now()
Fail451(t) ==
    /\ pc[t] = "fail_451"
    /\ last_failure_time' = now
    /\ Goto(t, "fail_452")
    /\ UNCHANGED <<cfg, now, state, failure_count, half_open_attempts,
                   opened_at, stats, loc, log>>

\* self.stats.last_failure_time = self.last_failure_time
Fail452(t) ==
    /\ pc[t] = "fail_452"
    /\ stats' = [stats EXCEPT !.last_failure_time = last_failure_time]
    /\ Goto(t, "fail_459")
    /\ UNCHANGED <<cfg, now, state, failure_count, half_open_attempts,
                   last_failure_time, opened_at, loc, log>>

\* if self.state == CircuitState.HALF_OPEN: self._open_circuit()
Fail459(t) ==
    /\ pc[t] = "fail_459"
    /\ Goto(t, IF state = HALF_OPEN THEN "open_475" ELSE "fail_464")
    /\ UNCHANGED <<cfg, now, breaker, loc, log>>

\* elif self.state == CircuitState.CLOSED:  (otherwise back in call: raise)
Fail464(t) ==
    /\ pc[t] = "fail_464"
    /\ IF state = CLOSED
          THEN /\ Goto(t, "fail_466")
               /\ UNCHANGED <<loc, log>>
          ELSE Finish(t, loc[t], loc[t].exc)
    /\ UNCHANGED <<cfg, now, breaker>>

\* Mutant: the circuit opens one failure late.
ThresholdExceeded(count, threshold) == count > threshold

\* self.failure_count >= self.failure_threshold
ThresholdReached(count, threshold) == count >= threshold

\* if self.failure_count >= self.failure_threshold: self._open_circuit()
\* (otherwise back in call: raise)
Fail466(t) ==
    /\ pc[t] = "fail_466"
    /\ IF ThresholdReached(failure_count, cfg.failure_threshold)
          THEN /\ Goto(t, "open_475")
               /\ UNCHANGED <<loc, log>>
          ELSE Finish(t, loc[t], loc[t].exc)
    /\ UNCHANGED <<cfg, now, breaker>>

----------------------------------------------------------------------------
(* CircuitBreaker._open_circuit *)

\* self.state = CircuitState.OPEN
Open475(t) ==
    /\ pc[t] = "open_475"
    /\ state' = OPEN
    /\ Goto(t, "open_476")
    /\ UNCHANGED <<cfg, now, failure_count, half_open_attempts,
                   last_failure_time, opened_at, stats, loc, log>>

\* Mutant: opened_at is set on the first opening only.
Open476KeepsFirst(t) ==
    /\ pc[t] = "open_476"
    /\ opened_at' = IF opened_at = None THEN now ELSE opened_at
    /\ Goto(t, "open_477r")
    /\ UNCHANGED <<cfg, now, state, failure_count, half_open_attempts,
                   last_failure_time, stats, loc, log>>

\* self.opened_at = datetime.now()
Open476(t) ==
    /\ pc[t] = "open_476"
    /\ opened_at' = now
    /\ Goto(t, "open_477r")
    /\ UNCHANGED <<cfg, now, state, failure_count, half_open_attempts,
                   last_failure_time, stats, loc, log>>

\* self.stats.state_changes += 1   (read)
Open477r(t) ==
    /\ pc[t] = "open_477r"
    /\ loc' = [loc EXCEPT ![t].tmp = stats.state_changes]
    /\ Goto(t, "open_477w")
    /\ UNCHANGED <<cfg, now, breaker, log>>

\* Mutant: a failure that opens the circuit surfaces as a rejection.
Open477wRejects(t) ==
    /\ pc[t] = "open_477w"
    /\ stats' = [stats EXCEPT !.state_changes = loc[t].tmp + 1]
    /\ Finish(t, loc[t], "CircuitBreakerError")
    /\ UNCHANGED <<cfg, now, state, failure_count, half_open_attempts,
                   last_failure_time, opened_at>>

\* self.stats.state_changes += 1   (write); _open_circuit and _on_failure
\* return, and call re-raises the operation's exception.
Open477w(t) ==
    /\ pc[t] = "open_477w"
    /\ stats' = [stats EXCEPT !.state_changes = loc[t].tmp + 1]
    /\ Finish(t, loc[t], loc[t].exc)
    /\ UNCHANGED <<cfg, now, state, failure_count, half_open_attempts,
                   last_failure_time, opened_at>>

----------------------------------------------------------------------------
(* The clock *)

Tick ==
    /\ now < MaxTime
    /\ now' = now + 1
    /\ UNCHANGED <<cfg, breaker, pc, loc, log>>

----------------------------------------------------------------------------
(* One caller at a time on one CircuitBreaker *)

BreakerConfigs ==
    [failure_threshold : 1..MaxThreshold,
     timeout : 0..MaxTimeout,
     expected_exception : {"Exception", "ConnectionError"},
     op_raises : {{"ConnectionError", "ValueError"}}]

Init ==
    /\ cfg \in BreakerConfigs
    /\ now = 0
    /\ BreakerInit
    /\ pc = [t \in Threads |-> "idle"]
    /\ loc = [t \in Threads |-> NoLocals]
    /\ log = <<>>

\* The statements of CircuitBreaker, executed by thread t.
BreakerStep(t) ==
    \/ Call374r(t) \/ Call374w(t) \/ Call377(t)
    \/ Reset407(t) \/ Reset410(t)
    \/ Half415(t) \/ Half416(t) \/ Half417r(t) \/ Half417w(t)
    \/ Call388(t) \/ OpReturn(t) \/ OpRaise(t)
    \/ Succ427r(t) \/ Succ427w(t) \/ Succ429(t) \/ Succ434(t)
    \/ Succ436(t) \/ Succ440(t)
    \/ Close484(t) \/ Close485(t) \/ Close486(t) \/ Close487(t)
    \/ Close488r(t) \/ Close488w(t)
    \/ Fail449r(t) \/ Fail449w(t) \/ Fail450r(t) \/ Fail450w(t)
    \/ Fail451(t) \/ Fail452(t) \/ Fail459(t) \/ Fail464(t) \/ Fail466(t)
    \/ Open475(t) \/ Open476(t) \/ Open477r(t) \/ Open477w(t)

Next ==
    \/ Tick
    \/ CallEnter("t1")
    \/ ResetEnter("t1")
    \/ BreakerStep("t1")
    \/ Return("t1")

Spec == Init /\ [][Next]_vars

----------------------------------------------------------------------------
(* calculate_backoff_delay *)

RECURSIVE Pow(_, _)
\* multiplier ** attempt, for attempt >= 0
Pow(multiplier, attempt) ==
    IF attempt <= 0 THEN 1 ELSE multiplier * Pow(multiplier, attempt - 1)

Min(a, b) == IF a <= b THEN a ELSE b

\* The numbers of calculate_backoff_delay are fractions
\* <<numerator, denominator>> with a positive denominator.
Leq(x, y) == x[1] * y[2] <= y[1] * x[2]
Times(x, y) == <<x[1] * y[1], x[2] * y[2]>>

\* min(delay, max_delay)
MinOf(x, y) == IF Leq(x, y) THEN x ELSE y

\* A float holds magnitudes below 2 ** MaxExponent (1024 for the doubles of
\* CPython; the model scales it down).
MaxExponent == 6

Returns(x) == [raised |-> "None", value |-> x]
Raises(type) == [raised |-> type, value |-> <<0, 1>>]

\* multiplier ** attempt  on floats: a result too large for a float is an
\* OverflowError, a negative power is the reciprocal, and a negative power
\* of zero is a ZeroDivisionError.
FloatPow(multiplier, attempt) ==
    IF attempt >= 0
       THEN IF Pow(multiplier, attempt) >= Pow(2, MaxExponent)
               THEN Raises("OverflowError")
               ELSE Returns(<<Pow(multiplier, attempt), 1>>)
       ELSE IF multiplier = 0
               THEN Raises("ZeroDivisionError")
               ELSE Returns(<<1, Pow(multiplier, 0 - attempt)>>)

\* The draws of random.uniform(0.5, 1.5) the retry loops consider, as
\* fractions: both ends of the interval.
JitterFactors == {<<1, 2>>, <<3, 2>>}

\* Mutant: the delay is not capped at max_delay.
DelayWithoutCap(attempt, base_delay, max_delay, multiplier, jitter, u) ==
    LET p == FloatPow(multiplier, attempt)
        delay == Times(<<base_delay, 1>>, p.value)
    IN  IF p.raised # "None" THEN p
        ELSE IF jitter THEN Returns(Times(delay, u))
        ELSE Returns(delay)

\* delay = base_delay * (multiplier ** attempt)
\* delay = min(delay, max_delay)
\* if jitter: delay = delay * jitter_factor    (u is the drawn factor)
\* return delay
calculate_backoff_delay(attempt, base_delay, max_delay, multiplier, jitter, u) ==
    LET p == FloatPow(multiplier, attempt)
        delay == MinOf(Times(<<base_delay, 1>>, p.value), <<max_delay, 1>>)
    IN  IF p.raised # "None" THEN p
        ELSE IF jitter THEN Returns(Times(delay, u))
        ELSE Returns(delay)

----------------------------------------------------------------------------
(* retry_with_backoff: decorator(func).wrapper *)

\* What a plain decorated function may raise.
FuncRaises == {"ConnectionError", "ValueError", "KeyboardInterrupt"}

\* Mutant: a bare "except Exception".
CatchesException(exceptions, type) == IsInstance(type, "Exception")

\* except exceptions as e:  matches an instance of any listed class
Catches(exceptions, type) == \E cls \in exceptions : IsInstance(type, cls)

\* Mutant: a delay follows the last attempt too.
HasMoreAttemptsAlways(attempt, max_attempts) == attempt < max_attempts

\* if attempt < max_attempts - 1:
HasMoreAttempts(attempt, max_attempts) == attempt < max_attempts - 1

\* Mutants: the loop runs once more, or once less.
InRangeInclusive(attempt, max_attempts) == attempt <= max_attempts
InRangeShort(attempt, max_attempts) == attempt < max_attempts - 1

\* for attempt in range(max_attempts):  the loop body runs for this index
InRange(attempt, max_attempts) == attempt < max_attempts

\* An entry of the history of a wrapper call; it also records the clock
\* and the breaker's state and opened_at at that moment.
Event(ev, l, out, eid) ==
    [ev |-> ev, attempt |-> l.attempt, out |-> out, eid |-> eid,
     delay |-> l.delay, gate |-> l.gate, ran |-> l.ran,
     now |-> now, st |-> state, opened |-> opened_at]

\* The func invocations recorded in a history of events.
FuncEvents(events) == SelectSeq(events, LAMBDA x : x.ev = "func")
SleepEvents(events) == SelectSeq(events, LAMBDA x : x.ev = "sleep")
CallbackEvents(events) == SelectSeq(events, LAMBDA x : x.ev = "on_retry")

\* A caller invokes the decorated function: last_exception = None, and the
\* for loop starts at attempt 0.
RetryEnter(t, func) ==
    /\ pc[t] = "idle"
    /\ Goto(t, "retry_169")
    /\ loc' = [loc EXCEPT ![t] = [NoLocals EXCEPT !.kind = func]]
    /\ UNCHANGED <<cfg, now, breaker, log>>

\* if last_exception: raise last_exception
\* raise RuntimeError(f"{func.__name__} failed without exception")
RaiseAfterLoop(last_exception) ==
    IF last_exception # NoExc THEN last_exception
    ELSE [type |-> "RuntimeError", id |-> 0]

\* for attempt in range(max_attempts):  and, once the range is exhausted,
\* lines 229-233
Retry169(t) ==
    /\ pc[t] = "retry_169"
    /\ IF InRange(loc[t].attempt, cfg.max_attempts)
          THEN /\ Goto(t, "retry_181")
               /\ UNCHANGED <<loc, log>>
          ELSE LET x == RaiseAfterLoop(loc[t].last_exception)
               IN  Done(t, loc[t], x.type, x.id)
    /\ UNCHANGED <<cfg, now, breaker>>

\* result = func(*args, **kwargs)  where func is a plain function: it
\* returns, or raises a new exception object
Retry181Plain(t) ==
    /\ pc[t] = "retry_181"
    /\ loc[t].kind = "retry"
    /\ \E out \in {"ok"} \cup FuncRaises :
          loc' = [loc EXCEPT ![t].res = out, ![t].ran = TRUE,
                             ![t].gate = "none", ![t].invoked = @ + 1]
    /\ Goto(t, "retry_ret")
    /\ UNCHANGED <<cfg, now, breaker, log>>

\* result = func(*args, **kwargs)  where func is the CircuitBreaker's
\* wrapper:  return self.call(func, *args, **kwargs)
Retry181Breaker(t) ==
    /\ pc[t] = "retry_181"
    /\ loc[t].kind = "upload"
    /\ loc' = [loc EXCEPT ![t].caller = "retry", ![t].ran = FALSE,
                          ![t].gate = "none", ![t].exc = "None",
                          ![t].at = None, ![t].oa = None,
                          ![t].t_exc = None]
    /\ Goto(t, "call_374r")
    /\ UNCHANGED <<cfg, now, breaker, log>>

\* func has returned or raised:  return result (189), except exceptions as e
\* (191), or the exception leaves the wrapper
RetryRet(t) ==
    /\ pc[t] = "retry_ret"
    /\ LET n == Len(FuncEvents(loc[t].events)) + 1
           l == [loc[t] EXCEPT
                    !.events = Append(@, Event("func", loc[t], loc[t].res, n))]
       IN  IF l.res = "ok"
              THEN Done(t, l, "ok", n)
           ELSE IF Catches(cfg.exceptions, l.res)
              THEN /\ loc' = [loc EXCEPT ![t] =
                                [l EXCEPT !.e = [type |-> l.res, id |-> n]]]
                   /\ Goto(t, "retry_192")
                   /\ UNCHANGED log
           ELSE Done(t, l, l.res, n)
    /\ UNCHANGED <<cfg, now, breaker>>

\* Mutant: only the first failure is remembered.
Retry192KeepsFirst(t) ==
    /\ pc[t] = "retry_192"
    /\ loc' = [loc EXCEPT ![t].last_exception =
                  IF @ = NoExc THEN loc[t].e ELSE @]
    /\ Goto(t, "retry_195")
    /\ UNCHANGED <<cfg, now, breaker, log>>

\* last_exception = e
Retry192(t) ==
    /\ pc[t] = "retry_192"
    /\ loc' = [loc EXCEPT ![t].last_exception = loc[t].e]
    /\ Goto(t, "retry_195")
    /\ UNCHANGED <<cfg, now, breaker, log>>

\* if attempt < max_attempts - 1: delay = calculate_backoff_delay(...)
\* else: (log) and the loop goes on to the next index.  The clock counts
\* whole seconds, and every configuration of the loops yields whole delays;
\* an exception of calculate_backoff_delay leaves the wrapper.
Retry195(t) ==
    /\ pc[t] = "retry_195"
    /\ IF HasMoreAttempts(loc[t].attempt, cfg.max_attempts)
          THEN \E u \in JitterFactors :
                  LET d == calculate_backoff_delay(loc[t].attempt,
                              cfg.base_delay, cfg.max_delay,
                              cfg.backoff_multiplier, cfg.jitter, u)
                  IN  IF d.raised # "None"
                         THEN Done(t, loc[t], d.raised, 0)
                         ELSE /\ loc' = [loc EXCEPT ![t].delay =
                                           d.value[1] \div d.value[2]]
                              /\ Goto(t, "retry_211")
                              /\ UNCHANGED log
          ELSE /\ loc' = [loc EXCEPT ![t].attempt = @ + 1]
               /\ Goto(t, "retry_169")
               /\ UNCHANGED log
    /\ UNCHANGED <<cfg, now, breaker>>

\* Mutant: an exception of on_retry leaves the wrapper.
Retry211Propagates(t) ==
    /\ pc[t] = "retry_211"
    /\ LET l == [loc[t] EXCEPT !.events =
                    Append(@, Event("on_retry", loc[t],
                                    cfg.on_retry, loc[t].e.id))]
       IN  IF cfg.on_retry = "raises"
              THEN Done(t, l, "CallbackError", 0)
              ELSE /\ loc' = [loc EXCEPT ![t] =
                                IF cfg.on_retry # "none" THEN l ELSE loc[t]]
                   /\ Goto(t, "retry_220")
                   /\ UNCHANGED log
    /\ UNCHANGED <<cfg, now, breaker>>

\* if on_retry: try: on_retry(attempt, e, delay)
\* except Exception as callback_error: (log)
Retry211(t) ==
    /\ pc[t] = "retry_211"
    /\ IF cfg.on_retry # "none"
          THEN loc' = [loc EXCEPT ![t].events =
                         Append(@, Event("on_retry", loc[t],
                                         cfg.on_retry, loc[t].e.id))]
          ELSE UNCHANGED loc
    /\ Goto(t, "retry_220")
    /\ UNCHANGED <<cfg, now, breaker, log>>

\* Mutant: the sleep never ends.
Retry220Hangs(t) ==
    /\ pc[t] = "retry_220"
    /\ UNCHANGED vars

\* time.sleep(delay), and the loop goes on to the next index
Retry220(t) ==
    /\ pc[t] = "retry_220"
    /\ now' = now + loc[t].delay
    /\ loc' = [loc EXCEPT ![t].events = Append(@, Event("sleep", loc[t], "None", 0)),
                          ![t].attempt = @ + 1]
    /\ Goto(t, "retry_169")
    /\ UNCHANGED <<cfg, breaker, log>>

RetryStep(t) ==
    \/ Retry169(t) \/ RetryRet(t) \/ Retry192(t) \/ Retry195(t)
    \/ Retry211(t) \/ Retry220(t)

----------------------------------------------------------------------------
(* One call of a function decorated with retry_with_backoff *)

MaxAttempts == 4        \* max_attempts ranges over 0..MaxAttempts

RetryConfigs ==
    [max_attempts : 0..MaxAttempts,
     base_delay : {1, 2},
     max_delay : {2, 10},
     backoff_multiplier : {1, 2},
     jitter : BOOLEAN,
     exceptions : {{"Exception"}, {"ConnectionError", "TimeoutError"}},
     on_retry : {"none", "returns", "raises"}]

InitRetry ==
    /\ cfg \in {c \in RetryConfigs : c.jitter => c.base_delay = 2}
    /\ now = 0
    /\ BreakerInit
    /\ pc = [t \in Threads |-> "idle"]
    /\ loc = [t \in Threads |-> NoLocals]
    /\ log = <<>>

\* The wrapper keeps no state between calls: one call is every call.
NextRetry ==
    \/ (log = <<>> /\ RetryEnter("t1", "retry"))
    \/ Retry181Plain("t1")
    \/ RetryStep("t1")
    \/ Return("t1")

SpecRetry == InitRetry /\ [][NextRetry]_vars

----------------------------------------------------------------------------
(* Concurrent callers of one CircuitBreaker *)

MaxConcCalls == 3       \* top-level calls started in a concurrent run
MaxConcTime == 1        \* the clock ticks while now < MaxConcTime

ConcConfigs ==
    [failure_threshold : {1, 2},
     timeout : {0, 1},
     expected_exception : {"Exception"},
     op_raises : {{"ConnectionError"}}]

InitConc ==
    /\ cfg \in ConcConfigs
    /\ now = 0
    /\ BreakerInit
    /\ pc = [t \in Threads |-> "idle"]
    /\ loc = [t \in Threads |-> NoLocals]
    /\ log = <<>>

\* The calls started so far: the completed ones and those in progress.
Started == Len(log) + Cardinality({t \in Threads : pc[t] # "idle"})

NextConc ==
    \/ (now < MaxConcTime /\ Tick)
    \/ \E t \in Threads :
          \/ (Started < MaxConcCalls /\ CallEnter(t))
          \/ BreakerStep(t)
          \/ Return(t)

SpecConc == InitConc /\ [][NextConc]_vars

----------------------------------------------------------------------------
(* The upload pipeline: src/src/uploader/uploader.py                       *)
(*   @retry_with_backoff(max_attempts=MAX_RETRIES, base_delay=2.0,         *)
(*        max_delay=30.0, backoff_multiplier=2.0, jitter=True,             *)
(*        exceptions=(Exception,))                                         *)
(*   @gcs_circuit_breaker                                                  *)
(*   def _perform_gcs_upload(...)                                          *)
(* with gcs_circuit_breaker = CircuitBreaker(failure_threshold=5,          *)
(*        timeout=60.0, expected_exception=Exception)                      *)

MAX_RETRIES == 3

MaxUploads == 3         \* _perform_gcs_upload calls in a run
MaxPipeTime == 70       \* the caller waits between calls while now < this

UploadConfig ==
    [max_attempts |-> MAX_RETRIES,
     base_delay |-> 2,
     max_delay |-> 30,
     backoff_multiplier |-> 2,
     jitter |-> TRUE,
     exceptions |-> {"Exception"},
     on_retry |-> "none",
     failure_threshold |-> 5,
     timeout |-> 60,
     expected_exception |-> "Exception",
     op_raises |-> {"ConnectionError"}]

InitPipe ==
    /\ cfg = UploadConfig
    /\ now = 0
    /\ BreakerInit
    /\ pc = [t \in Threads |-> "idle"]
    /\ loc = [t \in Threads |-> NoLocals]
    /\ log = <<>>

\* Time passes between two calls: the breaker's timeout.
Elapse ==
    /\ pc["t1"] = "idle"
    /\ now < MaxPipeTime
    /\ now' = now + cfg.timeout
    /\ UNCHANGED <<cfg, breaker, pc, loc, log>>

NextPipe ==
    \/ Elapse
    \/ (Len(log) < MaxUploads /\ RetryEnter("t1", "upload"))
    \/ Retry181Breaker("t1")
    \/ RetryStep("t1")
    \/ BreakerStep("t1")
    \/ Return("t1")

SpecPipe == InitPipe /\ [][NextPipe]_vars

----------------------------------------------------------------------------
(* Properties of the CircuitBreaker with one caller at a time (Spec) *)

CircuitBreakerError == "CircuitBreakerError"

\* A completed call whose operation was invoked and raised an instance of
\* expected_exception.
IsFailedCall(x) ==
    /\ x.op = "call"
    /\ x.invoked = 1
    /\ cfg.expected_exception \in Mro(x.out)

\* The first n completed operations were all such calls.
FirstFailed(n) == n <= Len(log) /\ \A i \in 1..n : IsFailedCall(log[i])

\* C1: a breaker with failure_threshold = T that starts CLOSED with
\* failure_count 0 is still CLOSED after fewer than T consecutive failing
\* calls and OPEN after exactly T; the very next call, made while less than
\* timeout has elapsed since the opening, ends with CircuitBreakerError
\* and the wrapped operation was not invoked.
C1_OpensAtThreshold ==
    LET T == cfg.failure_threshold
        l == loc["t1"]
    IN  /\ (pc["t1"] = "idle" /\ Len(log) < T /\ FirstFailed(Len(log)))
              => state = CLOSED
        /\ (pc["t1"] = "idle" /\ Len(log) = T /\ FirstFailed(T))
              => state = OPEN
        /\ (/\ pc["t1"] = "done" /\ l.kind = "call"
            /\ Len(log) = T /\ FirstFailed(T)
            /\ now - log[T].opened < cfg.timeout)
              => (l.result.out = CircuitBreakerError /\ l.invoked = 0)

C1_Witness ==
    /\ cfg.failure_threshold >= 2
    /\ pc["t1"] = "done" /\ loc["t1"].kind = "call"
    /\ Len(log) = cfg.failure_threshold
    /\ FirstFailed(cfg.failure_threshold)
    /\ now - log[cfg.failure_threshold].opened < cfg.timeout
    /\ loc["t1"].result.out = CircuitBreakerError
    /\ loc["t1"].invoked = 0

\* C2: a call that finds the breaker OPEN and computes
\* elapsed = now - opened_at < timeout ends with CircuitBreakerError, does
\* not invoke the operation and leaves the state OPEN; one that computes
\* elapsed >= timeout has moved the state to HALF_OPEN when it invokes the
\* operation, and does invoke it.
C2_OpenGate ==
    LET l == loc["t1"]
    IN  (l.kind = "call" /\ l.gate = OPEN /\ l.at # None) =>
           IF l.at - l.oa < cfg.timeout
              THEN /\ pc["t1"] = "done"
                   /\ l.result.out = CircuitBreakerError
                   /\ l.invoked = 0
                   /\ state = OPEN
              ELSE /\ pc["t1"] \in {"call_388", "in_op"} => state = HALF_OPEN
                   /\ pc["t1"] = "in_op" => l.invoked = 1
                   /\ pc["t1"] = "done" =>
                         (l.invoked = 1 /\ l.result.out # CircuitBreakerError)

\* An OPEN breaker has rejected a call, and a later call, made once the
\* timeout has elapsed, is inside the operation.
C2_Witness ==
    /\ cfg.timeout >= 1
    /\ \E i \in 1..Len(log) : log[i].out = CircuitBreakerError
    /\ loc["t1"].gate = OPEN
    /\ loc["t1"].at - loc["t1"].oa >= cfg.timeout
    /\ pc["t1"] = "in_op"
    /\ state = HALF_OPEN

\* A call that invoked the operation while the breaker was HALF_OPEN.
IsTrial(l) == l.kind = "call" /\ l.invoked = 1 /\ l.gate \in {OPEN, HALF_OPEN}

\* C3: when a HALF_OPEN trial call ends normally the breaker is CLOSED with
\* failure_count = 0 and opened_at = None; when it ends with an instance of
\* expected_exception the breaker is OPEN and opened_at is a time read
\* during that failure (not before the operation raised, not after the call
\* ended), later than the original opening whenever timeout > 0.
C3_HalfOpenTrial ==
    LET l == loc["t1"]
    IN  (pc["t1"] = "done" /\ IsTrial(l)) =>
           /\ l.result.out = "ok" =>
                 (state = CLOSED /\ failure_count = 0 /\ opened_at = None)
           /\ cfg.expected_exception \in Mro(l.result.out) =>
                 /\ state = OPEN
                 /\ l.t_exc <= opened_at /\ opened_at <= now
                 /\ cfg.timeout >= 1 => opened_at > l.oa

\* A failed trial, made after a cool-down of at least one tick.
C3_Witness ==
    /\ pc["t1"] = "done" /\ IsTrial(loc["t1"])
    /\ cfg.timeout >= 1
    /\ loc["t1"].oa # None
    /\ cfg.expected_exception \in Mro(loc["t1"].result.out)
    /\ state = OPEN /\ opened_at > loc["t1"].oa

----------------------------------------------------------------------------
(* Properties of the upload pipeline (SpecPipe) *)

\* C4: in retry_with_backoff(gcs_circuit_breaker(_perform_gcs_upload)), an
\* attempt that the breaker rejects with CircuitBreakerError is the last
\* thing the retry wrapper does: no sleep and no further attempt follow it.
C4_RejectionNotRetried ==
    LET ev == loc["t1"].events
    IN  \A i \in 1..Len(ev) :
           (ev[i].ev = "func" /\ ev[i].out = CircuitBreakerError)
              => i = Len(ev)

----------------------------------------------------------------------------
(* Properties of retry_with_backoff (SpecRetry) *)

\* An exception type listed in the configured `exceptions` tuple.
Retryable(type) == \E cls \in cfg.exceptions : cls \in Mro(type)

TheCall == loc["t1"]
Invocations == FuncEvents(TheCall.events)

\* C5: with max_attempts = N >= 1, when every invocation raised an exception
\* of a listed type, the call ends after exactly N invocations and the
\* exception that reaches the caller is the object raised by the N-th.
C5_ExhaustedRetries ==
    LET F == Invocations
        N == cfg.max_attempts
    IN  (/\ pc["t1"] = "done" /\ N >= 1
         /\ \A i \in 1..Len(F) : Retryable(F[i].out))
           => /\ Len(F) = N
              /\ TheCall.result = [out |-> F[N].out, eid |-> N]

C5_Witness ==
    /\ pc["t1"] = "done" /\ cfg.max_attempts = 3
    /\ Len(Invocations) = 3
    /\ \A i \in 1..3 : Retryable(Invocations[i].out)
    /\ TheCall.result.eid = 3

\* C6: as soon as an invocation returns normally the call has ended with
\* that invocation's value and nothing (no invocation, no sleep) follows it;
\* with max_attempts >= 3, after two retryable failures a third invocation
\* is made, and when it returns the call ends with its value after exactly
\* 3 invocations.
C6_SuccessEndsRetry ==
    LET ev == TheCall.events
        F == Invocations
    IN  /\ \A i \in 1..Len(ev) :
              (ev[i].ev = "func" /\ ev[i].out = "ok")
                 => /\ i = Len(ev)
                    /\ pc["t1"] = "done"
                    /\ TheCall.result = [out |-> "ok", eid |-> ev[i].eid]
        /\ (/\ pc["t1"] = "done" /\ cfg.max_attempts >= 3 /\ Len(F) >= 2
            /\ Retryable(F[1].out) /\ Retryable(F[2].out))
              => /\ Len(F) >= 3
                 /\ F[3].out = "ok" =>
                       (Len(F) = 3 /\ TheCall.result = [out |-> "ok", eid |-> 3])

C6_Witness ==
    /\ pc["t1"] = "done" /\ cfg.max_attempts >= 3
    /\ Len(Invocations) = 3
    /\ Retryable(Invocations[1].out) /\ Retryable(Invocations[2].out)
    /\ Invocations[3].out = "ok"
    /\ TheCall.result = [out |-> "ok", eid |-> 3]

\* C7: when the first invocation raises an exception of a type that is not
\* listed, that is the whole call: one invocation, no on_retry call, no
\* sleep (the clock has not moved), and the caller gets that exception.
C7_NonRetryableFailsFast ==
    LET ev == TheCall.events
    IN  (/\ ev # <<>> /\ ev[1].ev = "func"
         /\ ev[1].out # "ok" /\ ~Retryable(ev[1].out))
           => /\ Len(ev) = 1
              /\ pc["t1"] = "done"
              /\ TheCall.result = [out |-> ev[1].out, eid |-> 1]
              /\ now = 0

C7_Witness ==
    /\ pc["t1"] = "done"
    /\ cfg.max_attempts >= 2 /\ cfg.on_retry # "none"
    /\ Len(TheCall.events) = 1
    /\ TheCall.events[1].out = "ValueError" /\ ~Retryable("ValueError")
    /\ TheCall.result = [out |-> "ValueError", eid |-> 1]

\* C8: a call never invokes the function more than max_attempts times, has
\* no outcome before it ends, and ends with one outcome: the value of its
\* last invocation, which returned, or one exception.
C8_BoundedAttemptsOneOutcome ==
    LET F == Invocations
        r == TheCall.result
    IN  /\ Len(F) <= cfg.max_attempts
        /\ Len(log) <= 1
        /\ pc["t1"] \notin {"done", "idle"} => r.out = "None"
        /\ pc["t1"] = "done" =>
              \/ /\ r.out = "ok"
                 /\ F # <<>> /\ r.eid = Len(F) /\ F[Len(F)].out = "ok"
              \/ /\ r.out \in FuncRaises
                 /\ r.eid \in 1..Len(F) /\ F[r.eid].out = r.out
              \/ /\ r = [out |-> "RuntimeError", eid |-> 0]
                 /\ F = <<>>

C8_Witness ==
    /\ pc["t1"] = "done" /\ cfg.max_attempts >= 3
    /\ Len(Invocations) = cfg.max_attempts
    /\ TheCall.result.out \in FuncRaises

----------------------------------------------------------------------------
(* Properties of the CircuitBreaker with concurrent callers (SpecConc) *)

\* C9: two calls are never both inside the wrapped operation while the
\* breaker is HALF_OPEN.
C9_SingleTrial ==
    ~(pc["t1"] = "in_op" /\ pc["t2"] = "in_op" /\ state = HALF_OPEN)

AllIdle == \A t \in Threads : pc[t] = "idle"

\* C10: once all calls have ended, stats.failed_requests is the number of
\* calls whose operation failed; and when the calls so far were K failing
\* calls that all passed the gate of the CLOSED breaker, failure_count = K
\* and the breaker is OPEN if failure_count has reached failure_threshold.
C10_AtomicUpdates ==
    AllIdle =>
       /\ stats.failed_requests =
             Cardinality({i \in 1..Len(log) : IsFailedCall(log[i])})
       /\ (\A i \in 1..Len(log) : IsFailedCall(log[i]) /\ log[i].gate = CLOSED)
             => /\ failure_count = Len(log)
                /\ failure_count >= cfg.failure_threshold => state = OPEN

----------------------------------------------------------------------------
(* Further properties of the CircuitBreaker with one caller (Spec) *)

\* C11: when the wrapped operation was invoked and raised, the exception
\* that reaches the caller of call is the operation's exception; and a call
\* that ends with CircuitBreakerError did not invoke the operation.
C11_OwnException ==
    LET l == loc["t1"]
    IN  (pc["t1"] = "done" /\ l.kind = "call") =>
           /\ (l.invoked = 1 /\ l.exc # "None") => l.result.out = l.exc
           /\ l.result.out = CircuitBreakerError => l.invoked = 0

\* The failure that opens the circuit reaches the caller as itself, after
\* an earlier call was rejected.
C11_Witness ==
    /\ pc["t1"] = "done" /\ loc["t1"].kind = "call"
    /\ loc["t1"].invoked = 1 /\ loc["t1"].exc = "ConnectionError"
    /\ loc["t1"].result.out = "ConnectionError"
    /\ state = OPEN /\ opened_at = now
    /\ \E i \in 1..Len(log) :
          log[i].out = CircuitBreakerError /\ log[i].invoked = 0

\* The completed calls of the history that satisfy P.
CallsWhere(P(_)) ==
    Cardinality({i \in 1..Len(log) : log[i].op = "call" /\ P(log[i])})

AnyCall(x) == TRUE
Returned(x) == x.invoked = 1 /\ x.out = "ok"
RaisedAny(x) == x.invoked = 1 /\ x.out # "ok"
RaisedExpected(x) == RaisedAny(x) /\ cfg.expected_exception \in Mro(x.out)
RaisedOther(x) == RaisedAny(x) /\ cfg.expected_exception \notin Mro(x.out)
Rejected(x) == x.invoked = 0 /\ x.out = CircuitBreakerError

\* C12 (as stated): after any sequence of completed calls, total_requests
\* is the number of calls, successful_requests the number of calls whose
\* operation returned, failed_requests the number of calls whose operation
\* raised, and total_requests = successful_requests + failed_requests +
\* the number of rejections.
C12_StatsAsStated ==
    pc["t1"] = "idle" =>
       /\ stats.total_requests = CallsWhere(AnyCall)
       /\ stats.successful_requests = CallsWhere(Returned)
       /\ stats.failed_requests = CallsWhere(RaisedAny)
       /\ stats.total_requests =
             stats.successful_requests + stats.failed_requests
                + CallsWhere(Rejected)

\* C12 (amended): failed_requests counts the calls whose operation raised
\* an instance of expected_exception; an exception of another type leaves
\* the counters of successes and failures, failure_count and the state as
\* they were, so that total_requests = successful_requests +
\* failed_requests + rejections + calls whose operation raised such an
\* exception.
C12_Stats ==
    /\ pc["t1"] = "idle" =>
          /\ stats.total_requests = CallsWhere(AnyCall)
          /\ stats.successful_requests = CallsWhere(Returned)
          /\ stats.failed_requests = CallsWhere(RaisedExpected)
          /\ stats.total_requests =
                stats.successful_requests + stats.failed_requests
                   + CallsWhere(Rejected) + CallsWhere(RaisedOther)
    /\ (pc["t1"] = "done" /\ loc["t1"].kind = "call"
            /\ loc["t1"].invoked = 1 /\ loc["t1"].exc # "None"
            /\ cfg.expected_exception \notin Mro(loc["t1"].exc))
          => /\ state = loc["t1"].gate \/ loc["t1"].gate = OPEN
             /\ loc["t1"].result.out = loc["t1"].exc

\* A success, a counted failure, a rejection and a failure of another type
\* have all been recorded.
C12_Witness ==
    /\ pc["t1"] = "idle"
    /\ CallsWhere(Returned) >= 1 /\ CallsWhere(RaisedExpected) >= 1
    /\ CallsWhere(Rejected) >= 1 /\ CallsWhere(RaisedOther) >= 1
    /\ stats.total_requests = 4

----------------------------------------------------------------------------
(* Further properties of the upload pipeline (SpecPipe) *)

\* C13: within one call of the retried upload, once an attempt has invoked
\* the operation, failed and left the breaker OPEN, every later attempt of
\* that call made before timeout has elapsed since the opening ends with
\* CircuitBreakerError at the gate and does not invoke the operation.
C13_OpenShortCircuits ==
    LET F == FuncEvents(loc["t1"].events)
    IN  \A i, j \in 1..Len(F) :
           (/\ i < j
            /\ F[i].ran /\ F[i].out # "ok" /\ F[i].st = OPEN
            /\ F[j].now - F[i].opened < cfg.timeout)
              => (~F[j].ran /\ F[j].out = CircuitBreakerError)

\* The second attempt of a call opened the breaker and the third attempt,
\* made after the backoff sleep, was rejected.
C13_Witness ==
    LET F == FuncEvents(loc["t1"].events)
    IN  /\ Len(F) = 3
        /\ F[1].st = CLOSED
        /\ F[2].ran /\ F[2].gate = CLOSED /\ F[2].st = OPEN
        /\ F[3].now > F[2].now /\ F[3].now - F[2].opened < cfg.timeout
        /\ ~F[3].ran /\ F[3].out = CircuitBreakerError

----------------------------------------------------------------------------
(* One call of calculate_backoff_delay *)

MaxDelayAttempt == 7    \* attempt ranges over -2..MaxDelayAttempt
MaxMultiplier == 3      \* multiplier ranges over 0..MaxMultiplier

DelayInputs ==
    [attempt : (0 - 2)..MaxDelayAttempt,
     base_delay : {4, 8},
     max_delay : {4, 8, 40},
     multiplier : 0..MaxMultiplier,
     jitter : BOOLEAN]

\* Draws of random.uniform(0.5, 1.5): the ends, the middle and two more.
JitterDraws == {<<2, 4>>, <<3, 4>>, <<4, 4>>, <<5, 4>>, <<6, 4>>}

InitDelay ==
    /\ cfg \in DelayInputs
    /\ now = 0
    /\ BreakerInit
    /\ pc = [t \in Threads |-> "idle"]
    /\ loc = [t \in Threads |-> NoLocals]
    /\ log = <<>>

\* calculate_backoff_delay(attempt, base_delay, max_delay, multiplier,
\* jitter) is called, random.uniform draws u, and the call returns or raises.
DelayCall ==
    /\ log = <<>>
    /\ \E u \in JitterDraws :
          log' = <<[op |-> "delay", u |-> u,
                    ret |-> calculate_backoff_delay(cfg.attempt,
                               cfg.base_delay, cfg.max_delay,
                               cfg.multiplier, cfg.jitter, u)]>>
    /\ UNCHANGED <<cfg, now, breaker, pc, loc>>

NextDelay == DelayCall

SpecDelay == InitDelay /\ [][NextDelay]_vars

----------------------------------------------------------------------------
(* Properties of calculate_backoff_delay (SpecDelay) *)

Same(x, y) == x[1] * y[2] = y[1] * x[2]

\* min(base_delay * multiplier^attempt, max_delay) as a fraction, for any
\* integer attempt and a multiplier that is not 0 when attempt < 0.
Capped(attempt) ==
    LET b == cfg.base_delay
        m == cfg.multiplier
        raw == IF attempt >= 0 THEN <<b * Pow(m, attempt), 1>>
               ELSE <<b, Pow(m, 0 - attempt)>>
    IN  IF raw[1] <= cfg.max_delay * raw[2] THEN raw
        ELSE <<cfg.max_delay, 1>>

TheDelay == log[1].ret

\* C14: with jitter disabled and attempt >= 0, calculate_backoff_delay
\* returns min(base_delay * multiplier^attempt, max_delay); and when
\* multiplier >= 1 and base_delay <= max_delay that value is at most
\* max_delay and at most the value for attempt + 1.
C14_DelayFormula ==
    (log # <<>> /\ ~cfg.jitter /\ cfg.attempt >= 0) =>
       /\ TheDelay.raised = "None"
       /\ Same(TheDelay.value, Capped(cfg.attempt))
       /\ (cfg.multiplier >= 1 /\ cfg.base_delay <= cfg.max_delay) =>
             /\ Leq(TheDelay.value, <<cfg.max_delay, 1>>)
             /\ Leq(TheDelay.value, Capped(cfg.attempt + 1))

C16_NegativeAttemptRejected ==
    (log # <<>> /\ cfg.attempt < 0) => TheDelay.raised # "None"

----------------------------------------------------------------------------
(* Further properties of retry_with_backoff (SpecRetry) *)

\* min(base_delay * backoff_multiplier^i, max_delay) for the configuration
PlainDelay(i) ==
    LET d == cfg.base_delay * Pow(cfg.backoff_multiplier, i)
    IN  IF d <= cfg.max_delay THEN d ELSE cfg.max_delay

\* C17: with jitter disabled and max_attempts = N >= 1, when every
\* invocation raised a listed exception there were exactly N - 1 sleeps, the
\* i-th of them (from 0) of min(base_delay * backoff_multiplier^i,
\* max_delay); each sleep starts after attempt i has failed and attempt i+1
\* starts when it is over; the last event is the N-th invocation, whose
\* exception the caller gets.
C17_BackoffSchedule ==
    LET ev == TheCall.events
        F == Invocations
        S == SleepEvents(ev)
        N == cfg.max_attempts
    IN  (/\ pc["t1"] = "done" /\ ~cfg.jitter /\ N >= 1
         /\ \A i \in 1..Len(F) : Retryable(F[i].out))
           => /\ Len(S) = N - 1
              /\ \A i \in 1..Len(S) :
                    S[i].attempt = i - 1 /\ S[i].delay = PlainDelay(i - 1)
              /\ \A k \in 1..Len(ev) : ev[k].ev = "sleep" =>
                    /\ \E j \in 1..(k - 1) :
                          /\ ev[j].ev = "func"
                          /\ ev[j].attempt = ev[k].attempt
                          /\ ev[j].out # "ok" /\ ev[j].now = ev[k].now
                    /\ k < Len(ev) /\ ev[k + 1].ev = "func"
                    /\ ev[k + 1].attempt = ev[k].attempt + 1
                    /\ ev[k + 1].now = ev[k].now + ev[k].delay
              /\ ev[Len(ev)].ev = "func"
              /\ TheCall.result = [out |-> F[N].out, eid |-> N]

\* max_attempts=4, base_delay=1, multiplier=2, max_delay=10: the sleeps
\* are 1, 2, 4 and the 4th exception is propagated.
C17_Witness ==
    /\ pc["t1"] = "done" /\ ~cfg.jitter
    /\ cfg.max_attempts = 4 /\ cfg.base_delay = 1
    /\ cfg.backoff_multiplier = 2 /\ cfg.max_delay = 10
    /\ Len(Invocations) = 4
    /\ \A i \in 1..4 : Retryable(Invocations[i].out)
    /\ Len(SleepEvents(TheCall.events)) = 3
    /\ \A i \in 1..3 : SleepEvents(TheCall.events)[i].delay = Pow(2, i - 1)
    /\ now = 7
    /\ TheCall.result.eid = 4

\* The terminal outcome of a call as determined by its invocations alone.
OutcomeOf(F, N) ==
    IF F = <<>> THEN [out |-> "RuntimeError", eid |-> 0]
    ELSE [out |-> F[Len(F)].out, eid |-> Len(F)]

\* C18: on_retry is called with (attempt, e, delay) right after a failed
\* attempt that will be retried: the attempt raised the listed exception
\* e, it was not the last attempt, the delay had been computed, and the
\* sleep of that delay comes next; every sleep is preceded by such a call
\* when an observer is configured; nothing is called after the last failed
\* attempt or a success.  An observer that raises changes nothing: the
\* sleep and the next attempt follow, and the call ends as its invocations
\* alone determine.
C18_OnRetryObserver ==
    LET ev == TheCall.events
        F == Invocations
        N == cfg.max_attempts
    IN  /\ \A k \in 1..Len(ev) : ev[k].ev = "on_retry" =>
              /\ cfg.on_retry # "none"
              /\ k > 1 /\ ev[k - 1].ev = "func"
              /\ ev[k - 1].attempt = ev[k].attempt
              /\ Retryable(ev[k - 1].out) /\ ev[k].eid = ev[k - 1].eid
              /\ ev[k].attempt < N - 1
              /\ ~cfg.jitter => ev[k].delay = PlainDelay(ev[k].attempt)
              /\ IF k = Len(ev) THEN pc["t1"] = "retry_220"
                 ELSE /\ ev[k + 1].ev = "sleep"
                      /\ ev[k + 1].attempt = ev[k].attempt
                      /\ ev[k + 1].delay = ev[k].delay
                      /\ IF k + 1 = Len(ev)
                            THEN pc["t1"] \in {"retry_169", "retry_181",
                                               "retry_ret"}
                            ELSE ev[k + 2].ev = "func"
        /\ \A k \in 1..Len(ev) :
              (ev[k].ev = "sleep" /\ cfg.on_retry # "none")
                 => (k > 1 /\ ev[k - 1].ev = "on_retry")
        /\ \A k \in 1..Len(ev) :
              (ev[k].ev = "func" /\ k > 1) => ev[k - 1].ev = "sleep"
        /\ pc["t1"] = "done" =>
              /\ TheCall.result = OutcomeOf(F, N)
              /\ \/ F = <<>> /\ N = 0
                 \/ F # <<>> /\ F[Len(F)].out = "ok"
                 \/ F # <<>> /\ F[Len(F)].out # "ok"
                       /\ ~Retryable(F[Len(F)].out)
                 \/ Len(F) = N /\ N >= 1 /\ Retryable(F[N].out)

\* An observer that raised after the first failure; the call slept, made
\* its second attempt and returned that attempt's value.
C18_Witness ==
    LET ev == TheCall.events
    IN  /\ pc["t1"] = "done" /\ cfg.on_retry = "raises"
        /\ Len(ev) = 4
        /\ ev[1].ev = "func" /\ Retryable(ev[1].out)
        /\ ev[2].ev = "on_retry" /\ ev[2].attempt = 0 /\ ev[2].eid = 1
        /\ ev[3].ev = "sleep" /\ ev[3].delay = ev[2].delay
        /\ ev[4].ev = "func" /\ ev[4].out = "ok"
        /\ TheCall.result = [out |-> "ok", eid |-> 2]

----------------------------------------------------------------------------
(* State invariants of the CircuitBreaker with one caller (Spec) *)

\* C19: whenever no operation is in progress (initially, and after any
\* sequence of call and reset operations), opened_at is None if state is
\* CLOSED and is a timestamp if state is OPEN or HALF_OPEN.
C19_OpenedAtMatchesState ==
    pc["t1"] \in {"idle", "done"} =>
       /\ state = CLOSED => opened_at = None
       /\ state \in {OPEN, HALF_OPEN} => opened_at \in 0..now

\* The breaker has been opened, tried and closed again, then reopened at a
\* later time.
C19_Witness ==
    /\ pc["t1"] = "idle"
    /\ \E i \in 1..Len(log) :
          /\ log[i].op = "call" /\ log[i].gate = OPEN /\ log[i].out = "ok"
          /\ log[i].opened = None
    /\ state = OPEN /\ opened_at >= 1

RECURSIVE FailRun(_)
\* The number of failing calls among the first n completed operations
\* since the last successful call or reset.
FailRun(n) ==
    IF n = 0 THEN 0
    ELSE IF log[n].op = "reset" \/ log[n].out = "ok" THEN 0
    ELSE IF IsFailedCall(log[n]) THEN FailRun(n - 1) + 1
    ELSE FailRun(n - 1)

\* C20: a successful call that found the breaker CLOSED leaves
\* failure_count = 0; and as long as fewer than failure_threshold failing
\* calls have occurred since the last success at every point of the
\* history, the breaker is CLOSED and failure_count is the number of
\* failing calls since the last success, whatever the total.
C20_ConsecutiveFailures ==
    /\ (/\ pc["t1"] = "done" /\ loc["t1"].kind = "call"
        /\ loc["t1"].gate = CLOSED /\ loc["t1"].result.out = "ok")
          => failure_count = 0
    /\ (/\ pc["t1"] = "idle"
        /\ \A k \in 1..Len(log) : FailRun(k) < cfg.failure_threshold)
          => (state = CLOSED /\ failure_count = FailRun(Len(log)))

\* At least failure_threshold failing calls in total, never that many in a
\* row: the breaker is still CLOSED.
C20_Witness ==
    /\ pc["t1"] = "idle"
    /\ \A i \in 1..Len(log) : log[i].op = "call"
    /\ \A k \in 1..Len(log) : FailRun(k) < cfg.failure_threshold
    /\ CallsWhere(RaisedExpected) >= cfg.failure_threshold
    /\ CallsWhere(Returned) >= 1
    /\ FailRun(Len(log)) >= 1
    /\ state = CLOSED

----------------------------------------------------------------------------
(* Frame and transition properties of the CircuitBreaker (Spec) *)

\* The statements a call executes up to and including a rejection.
GateLabels == {"idle", "call_374r", "call_374w", "call_377",
               "reset_407", "reset_410"}

\* C23: a call that ends with CircuitBreakerError went from its entry to
\* the rejection without invoking the operation, and none of its steps
\* changed state, failure_count, opened_at, last_failure_time,
\* stats.successful_requests, stats.failed_requests or stats.state_changes;
\* stats.total_requests grew by one, in the step of line 374.
C23_RejectionFrame ==
    /\ [](LET l == loc["t1"]
          IN  (pc["t1"] = "done" /\ l.kind = "call"
                  /\ l.result.out = CircuitBreakerError)
                 => /\ l.invoked = 0 /\ ~l.ran
                    /\ l.gate = OPEN /\ state = OPEN
                    /\ opened_at = l.oa
                    /\ stats.total_requests = l.tmp + 1)
    /\ [][(/\ pc["t1"] \in GateLabels
           /\ pc'["t1"] \in GateLabels \cup {"done"}
           /\ pc'["t1"] = "done" =>
                 loc'["t1"].result.out = CircuitBreakerError)
            => /\ UNCHANGED <<state, failure_count, opened_at,
                              last_failure_time, half_open_attempts>>
               /\ stats' = [stats EXCEPT !.total_requests =
                              IF pc["t1"] = "call_374w" /\ pc'["t1"] = "call_377"
                                 THEN @ + 1 ELSE @]]_vars

\* A rejection at a later time than the opening: the cool-down still
\* counts from the opening.
C23_Witness ==
    /\ pc["t1"] = "done" /\ loc["t1"].kind = "call"
    /\ loc["t1"].result.out = CircuitBreakerError
    /\ cfg.failure_threshold = 2 /\ cfg.timeout = 2
    /\ loc["t1"].at = 1 /\ loc["t1"].oa = 0
    /\ state = OPEN /\ failure_count = 2
    /\ opened_at = 0 /\ now = 1 /\ last_failure_time = 0
    /\ stats.total_requests = 3 /\ stats.failed_requests = 2
    /\ stats.state_changes = 1

\* C25: when a call that invoked the operation while the breaker was
\* HALF_OPEN ends, by returning or by raising any exception, the breaker is
\* CLOSED or OPEN.
C25_TrialEndsHalfOpen ==
    (pc["t1"] = "done" /\ IsTrial(loc["t1"])) => state \in {CLOSED, OPEN}

\* No reset has been made or is being made.
NoReset ==
    /\ loc["t1"].kind # "reset"
    /\ \A i \in 1..Len(log) : log[i].op # "reset"

\* The state changes a completed call made, from what it saw at the gate
\* and how it ended.
ChangesOfCall(x) ==
    LET settled == x.out = "ok" \/ cfg.expected_exception \in Mro(x.out)
    IN  CASE x.gate = CLOSED -> IF x.opened # None THEN 1 ELSE 0
          [] x.gate = OPEN -> IF x.invoked = 0 THEN 0
                              ELSE IF settled THEN 2 ELSE 1
          [] x.gate = HALF_OPEN -> IF settled THEN 1 ELSE 0
          [] OTHER -> 0

RECURSIVE ChangesOfCalls(_)
ChangesOfCalls(n) ==
    IF n = 0 THEN 0 ELSE ChangesOfCalls(n - 1) + ChangesOfCall(log[n])

StateEdges ==
    {<<CLOSED, OPEN>>, <<OPEN, HALF_OPEN>>,
     <<HALF_OPEN, CLOSED>>, <<HALF_OPEN, OPEN>>}

\* C26: while only calls are made, the state changes only along
\* CLOSED->OPEN, OPEN->HALF_OPEN, HALF_OPEN->CLOSED and HALF_OPEN->OPEN,
\* stats.state_changes only ever grows by one, and after every completed
\* call it is the number of state changes made so far.
C26_Transitions ==
    /\ []((pc["t1"] = "idle" /\ NoReset)
            => stats.state_changes = ChangesOfCalls(Len(log)))
    /\ [][(loc["t1"].kind # "reset" /\ loc'["t1"].kind # "reset")
            => /\ state' # state => <<state, state'>> \in StateEdges
               /\ stats'.state_changes \in
                     {stats.state_changes, stats.state_changes + 1}]_vars

\* A full cycle and a reopening: four state changes counted.
C26_Witness ==
    /\ pc["t1"] = "idle" /\ NoReset
    /\ cfg.failure_threshold = 1
    /\ Len(log) = 3
    /\ log[1].gate = CLOSED /\ log[2].gate = OPEN /\ log[2].out = "ok"
    /\ log[3].gate = CLOSED
    /\ state = OPEN /\ stats.state_changes = 4

\* C27: whenever no operation is in progress, a CLOSED breaker has
\* 0 <= failure_count < failure_threshold and an OPEN or HALF_OPEN breaker
\* has failure_count >= failure_threshold.
C27_CountMatchesState ==
    pc["t1"] \in {"idle", "done"} =>
       /\ state = CLOSED =>
             (0 <= failure_count /\ failure_count < cfg.failure_threshold)
       /\ state \in {OPEN, HALF_OPEN} =>
             failure_count >= cfg.failure_threshold

\* A failed trial has pushed the count above the threshold, and a closed
\* breaker has counted failures below it.
C27_Witness ==
    /\ pc["t1"] = "idle"
    /\ \/ /\ state = OPEN /\ failure_count > cfg.failure_threshold
       \/ /\ state = CLOSED /\ failure_count = 2
          /\ \E i \in 1..Len(log) : log[i].opened # None

\* C28: reset() leaves state = CLOSED, failure_count = 0, opened_at = None
\* and half_open_attempts = 0 and does not touch total_requests,
\* successful_requests or failed_requests; and stats.state_changes does not
\* count a reset of a breaker that was already CLOSED.
C28_Reset ==
    (pc["t1"] = "done" /\ loc["t1"].kind = "reset") =>
       /\ state = CLOSED /\ failure_count = 0
       /\ opened_at = None /\ half_open_attempts = 0
       /\ stats.total_requests = CallsWhere(AnyCall)
       /\ stats.successful_requests = CallsWhere(Returned)
       /\ stats.failed_requests = CallsWhere(RaisedExpected)
       /\ (\A i \in 1..Len(log) : log[i].op = "call" /\ log[i].opened = None)
             => stats.state_changes = ChangesOfCalls(Len(log))

----------------------------------------------------------------------------
(* Calls of decorated functions that run to their end: a plain function and *)
(* a function behind a CircuitBreaker, every statement eventually executed  *)

MaxTermCalls == 2       \* calls of the decorated function in a run

TermConfigs ==
    [max_attempts : 0..MaxAttempts,
     base_delay : {1},
     max_delay : {2},
     backoff_multiplier : {2},
     jitter : {FALSE},
     exceptions : {{"Exception"}, {"ConnectionError", "TimeoutError"}},
     on_retry : {"none", "raises"},
     failure_threshold : {1, 2},
     timeout : {1, 60},
     expected_exception : {"Exception"},
     op_raises : {{"ConnectionError"}}]

InitTerm ==
    /\ cfg \in TermConfigs
    /\ now = 0
    /\ BreakerInit
    /\ pc = [t \in Threads |-> "idle"]
    /\ loc = [t \in Threads |-> NoLocals]
    /\ log = <<>>

\* The statements of the wrapper and of what it calls.
TermStep ==
    \/ Retry181Plain("t1")
    \/ Retry181Breaker("t1")
    \/ RetryStep("t1")
    \/ BreakerStep("t1")

NextTerm ==
    \/ (Len(log) < MaxTermCalls /\ RetryEnter("t1", "retry"))
    \/ (Len(log) < MaxTermCalls /\ RetryEnter("t1", "upload"))
    \/ TermStep
    \/ Return("t1")

\* The interpreter keeps executing the thread; the function, on_retry and
\* time.sleep return.
SpecTerm == InitTerm /\ [][NextTerm]_vars /\ WF_vars(TermStep)

----------------------------------------------------------------------------
(* Termination and the first attempt of retry_with_backoff *)

\* C29: every call of the decorated function that has started reaches its
\* end, where control is back in the caller with a value or an exception.
C29_Terminates ==
    (pc["t1"] # "idle") ~> (pc["t1"] = "done")

\* A call all of whose attempts were rejected by the breaker has ended.
C29_Witness ==
    /\ pc["t1"] = "done" /\ TheCall.kind = "upload"
    /\ cfg.max_attempts >= 3
    /\ Len(Invocations) = cfg.max_attempts
    /\ \A i \in 1..Len(Invocations) :
          Invocations[i].out = CircuitBreakerError /\ ~Invocations[i].ran
    /\ TheCall.result.out = CircuitBreakerError

\* C30: whatever max_attempts is, a call that has ended invoked the
\* function at least once, and an exception it ended with was raised by one
\* of those invocations.
C30_InitialAttempt ==
    pc["t1"] = "done" =>
       /\ Len(Invocations) >= 1
       /\ TheCall.result.eid \in 1..Len(Invocations)
       /\ Invocations[TheCall.result.eid].out = TheCall.result.out

----------------------------------------------------------------------------
(* A CircuitBreaker whose callers keep calling while time passes *)

NextLive ==
    \/ Tick
    \/ CallEnter("t1")
    \/ BreakerStep("t1")
    \/ Return("t1")

\* Time advances, a caller that can call does, and a call that has started
\* runs on: the wrapped operation returns or raises.
SpecLive ==
    /\ Init /\ [][NextLive]_vars
    /\ WF_vars(Tick) /\ WF_vars(CallEnter("t1"))
    /\ WF_vars(BreakerStep("t1")) /\ WF_vars(Return("t1"))

----------------------------------------------------------------------------
(* upload_file: src/src/uploader/uploader.py                               *)
(* The module defines upload_file twice, at line 153 and at line 403; the  *)
(* second def statement rebinds the name, so upload_file is the function   *)
(* of lines 402-531 wrapped by log_function_call (utils/logging.py).  Its  *)
(* body is the validation of the first definition followed by statements   *)
(* that read a name `results` the function never binds.                    *)

MaxUploadFileCalls == 2     \* upload_file calls in a run

\* What upload_file is given: a file that passes every check, one that
\* passes with an unusual extension (a warning only), and one input for
\* each check that returns early.
UploadInputs ==
    {"valid", "odd_extension", "missing", "directory", "too_small",
     "too_large", "bad_gcs_path"}

PassesValidation(file) == file \in {"valid", "odd_extension"}

\* The effective level of the module's logger: INFO after setup_logging,
\* ERROR when only errors are logged, OFF under logging.disable(CRITICAL).
LogLevels == {"INFO", "ERROR", "OFF"}

IsEnabledFor(level) ==
    CASE level = "INFO" -> cfg.log_level = "INFO"
      [] level = "ERROR" -> cfg.log_level \in {"INFO", "ERROR"}

\* logger.<level>(msg, extra={..., "module": func.__module__, ...}): when
\* the level is enabled a LogRecord is made, and makeRecord raises
\* KeyError because "module" is an attribute of every LogRecord.
LogWithModule(level) ==
    IF IsEnabledFor(level) THEN "KeyError" ELSE "None"

SuccessResult == "UploadResult(success=True)"
FailedResult == "UploadResult(success=False)"

UploadFileConfigs ==
    {[x \in DOMAIN UploadConfig \cup {"log_level"} |->
         IF x = "log_level" THEN lv ELSE UploadConfig[x]] : lv \in LogLevels}

InitUpload ==
    /\ cfg \in UploadFileConfigs
    /\ now = 0
    /\ BreakerInit
    /\ pc = [t \in Threads |-> "idle"]
    /\ loc = [t \in Threads |-> NoLocals]
    /\ log = <<>>

\* A caller calls upload_file(local_path, config).
UploadFileEnter(t) ==
    /\ pc[t] = "idle"
    /\ Len(log) < MaxUploadFileCalls
    /\ \E file \in UploadInputs :
          loc' = [loc EXCEPT ![t] = [NoLocals EXCEPT !.kind = "upload_file",
                                                      !.file = file]]
    /\ Goto(t, "log_317")
    /\ UNCHANGED <<cfg, now, breaker, log>>

\* log_function_call.wrapper:  logger.info(f"ENTER ...", extra={...})
Log317(t) ==
    /\ pc[t] = "log_317"
    /\ IF LogWithModule("INFO") # "None"
          THEN Done(t, loc[t], LogWithModule("INFO"), 0)
          ELSE Goto(t, "upload_403") /\ UNCHANGED <<loc, log>>
    /\ UNCHANGED <<cfg, now, breaker>>

\* result = func(*args, **kwargs): the body of upload_file up to line 518.
\* Each failed check returns UploadResult(success=False, gcs_uri=None,
\* error_message=...); a file that passes goes on to line 521.
Upload403(t) ==
    /\ pc[t] = "upload_403"
    /\ IF PassesValidation(loc[t].file)
          THEN Goto(t, "upload_521") /\ UNCHANGED loc
          ELSE Goto(t, "log_338")
               /\ loc' = [loc EXCEPT ![t].res = FailedResult]
    /\ UNCHANGED <<cfg, now, breaker, log>>

\* successful = sum(1 for r in results if r.success): `results` is not
\* bound, so the statement raises NameError, caught at logging.py 353.
Upload521(t) ==
    /\ pc[t] = "upload_521"
    /\ loc' = [loc EXCEPT ![t].res = "NameError"]
    /\ Goto(t, "log_358")
    /\ UNCHANGED <<cfg, now, breaker, log>>

\* logger.info(f"EXIT ...", extra={...}); return result.  A KeyError of
\* the log call is caught at line 353, whose own log call raises it again.
Log338(t) ==
    /\ pc[t] = "log_338"
    /\ IF LogWithModule("INFO") # "None"
          THEN Done(t, loc[t], LogWithModule("ERROR"), 0)
          ELSE Done(t, loc[t], loc[t].res, 0)
    /\ UNCHANGED <<cfg, now, breaker>>

\* except Exception as error: logger.error(f"ERROR ...", extra={...});
\* raise
Log358(t) ==
    /\ pc[t] = "log_358"
    /\ IF LogWithModule("ERROR") # "None"
          THEN Done(t, loc[t], LogWithModule("ERROR"), 0)
          ELSE Done(t, loc[t], loc[t].res, 0)
    /\ UNCHANGED <<cfg, now, breaker>>

NextUpload ==
    \/ UploadFileEnter("t1")
    \/ Log317("t1")
    \/ Upload403("t1")
    \/ Upload521("t1")
    \/ Log338("t1")
    \/ Log358("t1")
    \/ Return("t1")

SpecUpload == InitUpload /\ [][NextUpload]_vars

\* The completed upload_file call that is number k of the run, while it is
\* about to return to its caller.
UploadFileDone(k) ==
    /\ pc["t1"] = "done" /\ loc["t1"].kind = "upload_file"
    /\ Len(log) = k - 1

\* C22: upload_file given a file that passes local validation does not
\* raise: it returns an UploadResult, which is a success only when an
\* upload attempt was made and completed, and otherwise a failure with
\* gcs_uri = None and an error_message.
C22_UploadNeverRaises ==
    \A k \in 1..MaxUploadFileCalls :
       (UploadFileDone(k) /\ PassesValidation(loc["t1"].file)) =>
          /\ loc["t1"].result.out \in {SuccessResult, FailedResult}
          /\ loc["t1"].result.out = SuccessResult => loc["t1"].invoked >= 1

\* C24: with a GCS operation that always fails and files that pass
\* validation, the shared breaker is charged per attempt: the first
\* upload_file call records 3 failures, the second opens the breaker at
\* its 2nd attempt and has its 3rd rejected, later calls begun before the
\* timeout invoke the operation zero times, and each call returns a
\* failed UploadResult.
C24_ChargedPerAttempt ==
    \A k \in 1..MaxUploadFileCalls :
       (/\ UploadFileDone(k)
        /\ PassesValidation(loc["t1"].file)
        /\ \A i \in 1..Len(log) : PassesValidation(log[i].file)
        /\ now < cfg.timeout) =>
          /\ loc["t1"].result.out = FailedResult
          /\ k = 1 => /\ stats.failed_requests = MAX_RETRIES
                       /\ failure_count = MAX_RETRIES /\ state = CLOSED
          /\ k = 2 => /\ stats.failed_requests = cfg.failure_threshold
                       /\ stats.total_requests = 2 * MAX_RETRIES
                       /\ state = OPEN
          /\ k > 2 => loc["t1"].invoked = 0 /\ state = OPEN

====
